---- MODULE Spec2Model ----
(***************************************************************************)
(* Entitlement & usage accounting of the Analogous backend                 *)
(* (src/backend/app.py): the daily quota, the rate limiter, the storage    *)
(* guard and the streak bookkeeping of generate-analogy and                *)
(* regenerate-analogy, the login reset check and the pricing statistics,   *)
(* for one account of the Record Store.                                    *)
(*                                                                         *)
(* A handler is a sequence of Record Store round trips; each round trip,   *)
(* with the local computation that follows it, is one action.  Requests    *)
(* overlap under Spec and run one at a time under SpecSeq.                 *)
(***************************************************************************)
EXTENDS Integers, FiniteSets, Sequences, Bags, TLC

VARIABLES
    now,          \* the clock, in ticks since the epoch (UTC)
    user,         \* the account's row of user_information
    analogies,    \* number of rows of the analogies table owned by the account
    streak_logs,  \* the account's rows of streak_logs: a bag of dates
    req,          \* per request slot: the handler's position and its locals
    stats,        \* the last response of the pricing-stats endpoint
    client_tz,    \* the timezone identifier the user's client sends
    snap,         \* history: the account's row as the latest request found it
    hist          \* history of the run: what the properties are stated about

vars == <<now, user, analogies, streak_logs, req, stats, client_tz, snap, hist>>

----------------------------------------------------------------------------
(* Bounds of the model. *)

NReq == 2            \* request slots that may be in flight together
MaxStarts == 3       \* requests started in one behaviour
MaxDays == 2         \* days covered by the day grid of the clock
TicksPerSecond == 2  \* clock resolution

Reqs == 1..NReq

----------------------------------------------------------------------------
(* Time and local calendar dates. *)

Sec(s) == s * TicksPerSecond
Hour(h) == h * 60 * 60 * TicksPerSecond
TicksPerDay == Hour(24)

None == <<>>
Some(v) == <<v>>

KnownZones == {"UTC", "America/Los_Angeles", "Asia/Tokyo"}

\* a variant that falls back to the zone of the server
get_user_timezone_local(timezone_str) ==
    IF timezone_str \in KnownZones THEN timezone_str ELSE "America/Los_Angeles"

\* pytz.timezone, falling back to UTC on an unknown identifier
get_user_timezone(timezone_str) ==
    IF timezone_str \in KnownZones THEN timezone_str ELSE "UTC"

\* the fixed offset of a resolved zone from UTC
utcoffset(zone) ==
    CASE zone = "America/Los_Angeles" -> 0 - Hour(8)
      [] zone = "Asia/Tokyo" -> Hour(9)
      [] OTHER -> 0

\* datetime.now(user_tz).date(), as a day number, at instant t
get_user_current_date(timezone_str, t) ==
    (t + utcoffset(get_user_timezone(timezone_str))) \div TicksPerDay

\* date.isoformat(): the stored text of a date
isoformat_date(d) == <<"%Y-%m-%d", d>>

\* datetime.isoformat() of a naive (utcnow) or aware (now(timezone.utc)) datetime
isoformat_naive(t) == <<t, "naive">>
isoformat_aware(t) == <<t, "+00:00">>

----------------------------------------------------------------------------
(* Pure functions of the handlers. *)

DateFormats ==
    {"%Y-%m-%d", "%Y-%m-%dT%H:%M:%S", "%Y-%m-%dT%H:%M:%S.%f", "%Y-%m-%dT%H:%M:%S.%fZ"}

\* a variant that also resets on the stored date itself
should_reset_daily_count_inclusive(daily_reset_date, user_current_date) ==
    IF daily_reset_date = None THEN TRUE
    ELSE IF daily_reset_date[1] \in DateFormats
         THEN daily_reset_date[2] <= user_current_date
         ELSE TRUE

\* should_reset_daily_count: an unset or unparsable stored date resets,
\* a parsed one resets when it is before the user's current date
should_reset_daily_count(daily_reset_date, user_current_date) ==
    IF daily_reset_date = None THEN TRUE
    ELSE IF daily_reset_date[1] \in DateFormats
         THEN daily_reset_date[2] < user_current_date
         ELSE TRUE

\* "Define limits based on plan" of generate_analogy: <<daily_limit, rate_limit_seconds>>
generate_limits(current_plan) ==
    IF current_plan = "curious" THEN <<20, 60>>
    ELSE IF current_plan = "scholar" THEN <<100, 12>>
    ELSE <<20, 60>>

\* a variant that gives every plan the scholar limits
regenerate_limits_relaxed(current_plan) == <<100, 12>>

\* the same block of regenerate_analogy
regenerate_limits(current_plan) ==
    IF current_plan = "curious" THEN <<20, 60>>
    ELSE IF current_plan = "scholar" THEN <<100, 12>>
    ELSE <<20, 60>>

\* a variant whose default branch gives the scholar limits
pricing_stats_limits_scholar_default(current_plan) ==
    IF current_plan = "curious" THEN <<20, 60>>
    ELSE <<100, 12>>

\* the same block of get_user_pricing_stats
pricing_stats_limits(current_plan) ==
    IF current_plan = "curious" THEN <<20, 60>>
    ELSE IF current_plan = "scholar" THEN <<100, 12>>
    ELSE <<20, 60>>

\* "Define storage limits based on plan" of generate_analogy
generate_storage_limit(current_plan) ==
    IF current_plan = "curious" THEN 100
    ELSE IF current_plan = "scholar" THEN 500
    ELSE 100

\* the same block of regenerate_analogy
regenerate_storage_limit(current_plan) ==
    IF current_plan = "curious" THEN 100
    ELSE IF current_plan = "scholar" THEN 500
    ELSE 100

\* "Check rate limiting SECOND" of generate_analogy, at instant t:
\* <<"ok">> or <<"limited", remaining_seconds>>.  The stored text is parsed
\* with fromisoformat and subtracted from the naive utcnow(); for an aware
\* value the subtraction raises TypeError, which the handler catches and
\* then continues.  int() truncates the remaining wait.
generate_rate_check(last_analogy_time, t, rate_limit_seconds) ==
    IF last_analogy_time = None THEN <<"ok">>
    ELSE IF last_analogy_time[2] # "naive" THEN <<"ok">>
    ELSE IF t - last_analogy_time[1] < Sec(rate_limit_seconds)
         THEN <<"limited",
                (Sec(rate_limit_seconds) - (t - last_analogy_time[1])) \div TicksPerSecond>>
         ELSE <<"ok">>

\* the same block of regenerate_analogy
regenerate_rate_check(last_analogy_time, t, rate_limit_seconds) ==
    IF last_analogy_time = None THEN <<"ok">>
    ELSE IF last_analogy_time[2] # "naive" THEN <<"ok">>
    ELSE IF t - last_analogy_time[1] < Sec(rate_limit_seconds)
         THEN <<"limited",
                (Sec(rate_limit_seconds) - (t - last_analogy_time[1])) \div TicksPerSecond>>
         ELSE <<"ok">>

\* a variant that lets a count equal to the limit through
generate_gate_strict(current_daily_count, limits, last_analogy_time, t, stored_count, storage_limit) ==
    IF current_daily_count > limits[1] THEN "rej_quota"
    ELSE IF generate_rate_check(last_analogy_time, t, limits[2])[1] = "limited" THEN "rej_rate"
    ELSE IF stored_count >= storage_limit THEN "rej_storage"
    ELSE "generating"

\* STEP 1 and STEP 1.5 of generate_analogy in the order of the code: the
\* daily limit first, the rate limit second, the storage limit third
generate_gate(current_daily_count, limits, last_analogy_time, t, stored_count, storage_limit) ==
    IF current_daily_count >= limits[1] THEN "rej_quota"
    ELSE IF generate_rate_check(last_analogy_time, t, limits[2])[1] = "limited" THEN "rej_rate"
    ELSE IF stored_count >= storage_limit THEN "rej_storage"
    ELSE "generating"

\* a variant that checks the rate limit before the daily limit
regenerate_gate_rate_first(current_daily_count, limits, last_analogy_time, t, stored_count, storage_limit) ==
    IF regenerate_rate_check(last_analogy_time, t, limits[2])[1] = "limited" THEN "rej_rate"
    ELSE IF current_daily_count >= limits[1] THEN "rej_quota"
    ELSE IF stored_count >= storage_limit THEN "rej_storage"
    ELSE "generating"

\* the same steps of regenerate_analogy
regenerate_gate(current_daily_count, limits, last_analogy_time, t, stored_count, storage_limit) ==
    IF current_daily_count >= limits[1] THEN "rej_quota"
    ELSE IF regenerate_rate_check(last_analogy_time, t, limits[2])[1] = "limited" THEN "rej_rate"
    ELSE IF stored_count >= storage_limit THEN "rej_storage"
    ELSE "generating"

\* a variant that counts a second activity of the same day again
new_streak_count_same_day(last_streak_date, current_streak, user_current_date) ==
    IF last_streak_date = None THEN 1
    ELSE IF last_streak_date[1] # "%Y-%m-%d" THEN 1
    ELSE IF last_streak_date[2] = user_current_date THEN current_streak + 1
    ELSE IF last_streak_date[2] = user_current_date - 1 THEN current_streak + 1
    ELSE 1

\* a variant that does not count the day after the streak date
new_streak_count_stalled(last_streak_date, current_streak, user_current_date) ==
    IF last_streak_date = None THEN 1
    ELSE IF last_streak_date[1] # "%Y-%m-%d" THEN 1
    ELSE IF last_streak_date[2] = user_current_date THEN current_streak
    ELSE IF last_streak_date[2] = user_current_date - 1 THEN current_streak
    ELSE 1

\* "Determine new streak count" of update_user_streak
new_streak_count(last_streak_date, current_streak, user_current_date) ==
    IF last_streak_date = None THEN 1
    ELSE IF last_streak_date[1] # "%Y-%m-%d" THEN 1
    ELSE IF last_streak_date[2] = user_current_date THEN current_streak
    ELSE IF last_streak_date[2] = user_current_date - 1 THEN current_streak + 1
    ELSE 1

\* a variant that tolerates one missed day
streak_broken_lenient(last_streak_date, user_current_date) ==
    IF last_streak_date = None THEN TRUE
    ELSE IF last_streak_date[1] # "%Y-%m-%d" THEN TRUE
    ELSE user_current_date - last_streak_date[2] > 2

\* "Check if streak is broken" of the streak pre-check of generate_analogy
streak_broken(last_streak_date, user_current_date) ==
    IF last_streak_date = None THEN TRUE
    ELSE IF last_streak_date[1] # "%Y-%m-%d" THEN TRUE
    ELSE user_current_date - last_streak_date[2] > 1

Max(a, b) == IF a >= b THEN a ELSE b

\* a variant that tolerates one missed day
validate_streak_broken_late(last_streak_date, current_date) ==
    IF last_streak_date = None THEN TRUE
    ELSE IF last_streak_date[1] # "%Y-%m-%d" THEN TRUE
    ELSE current_date - last_streak_date[2] > 2

\* "Check if streak is broken" of validate_and_update_user_streak
validate_streak_broken(last_streak_date, current_date) ==
    IF last_streak_date = None THEN TRUE
    ELSE IF last_streak_date[1] # "%Y-%m-%d" THEN TRUE
    ELSE current_date - last_streak_date[2] > 1

\* the row validate_and_update_user_streak leaves on the date current_date
validate_and_update_user_streak(row, current_date) ==
    IF validate_streak_broken(row.last_streak_date, current_date)
       /\ row.current_streak_count > 0
    THEN [row EXCEPT !.current_streak_count = 0, !.streak_reset_acknowledged = FALSE]
    ELSE row

\* a variant that continues yesterday's streak
correct_streak_continued(last_streak_date, current_streak, has_generated_today, current_date) ==
    IF last_streak_date = None THEN 0
    ELSE IF last_streak_date[1] # "%Y-%m-%d" THEN 0
    ELSE IF current_date - last_streak_date[2] = 0
         THEN (IF has_generated_today THEN current_streak ELSE 1)
    ELSE IF current_date - last_streak_date[2] = 1 THEN current_streak + 1
    ELSE 0

\* "Determine the correct streak count" of fix_user_streak
correct_streak(last_streak_date, current_streak, has_generated_today, current_date) ==
    IF last_streak_date = None THEN 0
    ELSE IF last_streak_date[1] # "%Y-%m-%d" THEN 0
    ELSE IF current_date - last_streak_date[2] = 0
         THEN (IF has_generated_today THEN current_streak ELSE 1)
    ELSE IF current_date - last_streak_date[2] = 1 THEN 1
    ELSE 0

----------------------------------------------------------------------------
(* Requests. *)

\* a request slot with no handler running
IdleReq ==
    [pc |-> "idle", kind |-> "none", tz |-> "UTC",
     plan |-> "none", limits |-> <<0, 0>>, last |-> None,      \* first user read
     today |-> 0, count |-> 0, reset |-> FALSE,                 \* daily reset check
     gate_t |-> 0, stored |-> 0, storage_limit |-> 0, remaining |-> 0,  \* the gates
     already |-> FALSE, s_date |-> 0, s_time |-> 0, s_new |-> 0, s_longest |-> 0,  \* streak
     inserted |-> FALSE,                                        \* insert_streak_log's result
     f_streak |-> 0, f_last |-> None,                           \* fix_user_streak's read
     l_count |-> 0,                                             \* lifetime count
     c_count |-> 0, c_time |-> 0,                               \* daily count commit
     anomaly |-> FALSE,                                         \* an accounting step failed
     repeat |-> FALSE, first |-> FALSE]                         \* history of the request

Accounted == {"generate", "regenerate"}

InFlight(r) == req[r].pc # "idle"

Goto(r, pc) == req' = [req EXCEPT ![r] = [@ EXCEPT !.pc = pc]]

\* where a handler continues after check_and_reset_daily_count
AfterCheck(kind) == IF kind = "login" THEN "login_done" ELSE "gate"

----------------------------------------------------------------------------
(* generate_analogy and regenerate_analogy: STEP 1, the limits. *)

\* The request arrives and the handler reads the account's row: plan,
\* limits of the plan and last_analogy_time (user_data).
StartAccounted(r, kind) ==
    /\ req[r].pc = "idle"
    /\ hist.starts < MaxStarts
    /\ req' = [req EXCEPT ![r] =
                 [IdleReq EXCEPT !.pc = "cr_read", !.kind = kind, !.tz = client_tz,
                                 !.plan = user.plan,
                                 !.limits = IF kind = "generate"
                                            THEN generate_limits(user.plan)
                                            ELSE regenerate_limits(user.plan),
                                 !.last = user.last_analogy_time]]
    /\ hist' = [hist EXCEPT !.starts = @ + 1, !.logs = streak_logs]
    /\ UNCHANGED <<now, user, analogies, streak_logs, stats, client_tz>>

\* check_daily_reset_on_login: the reset check with the fixed zone "UTC"
StartLogin(r) ==
    /\ req[r].pc = "idle"
    /\ hist.starts < MaxStarts
    /\ req' = [req EXCEPT ![r] =
                 [IdleReq EXCEPT !.pc = "cr_read", !.kind = "login", !.tz = "UTC"]]
    /\ hist' = [hist EXCEPT !.starts = @ + 1, !.logs = streak_logs]
    /\ UNCHANGED <<now, user, analogies, streak_logs, stats, client_tz>>

\* check_and_reset_daily_count reads the row; reset_daily_count_if_needed
\* computes the user's current date and decides whether to reset
CRRead(r) ==
    /\ req[r].pc = "cr_read"
    /\ LET today == get_user_current_date(req[r].tz, now)
           reset == should_reset_daily_count(user.daily_reset_date, today)
           local == get_user_current_date(client_tz, now)
       IN /\ req' = [req EXCEPT ![r] =
                       [@ EXCEPT !.pc = IF reset THEN "cr_write" ELSE AfterCheck(req[r].kind),
                                 !.today = today,
                                 !.count = user.daily_analogies_generated,
                                 !.reset = reset,
                                 !.repeat = <<req[r].tz, today>> \in hist.checked,
                                 !.first = local > hist.max_day]]
          /\ hist' = [hist EXCEPT !.checked = @ \cup {<<req[r].tz, today>>},
                                  !.max_day = Max(@, local)]
    /\ UNCHANGED <<now, user, analogies, streak_logs, stats, client_tz, snap>>

\* the reset: daily_reset_date = today, daily_analogies_generated = 0
CRWrite(r) ==
    /\ req[r].pc = "cr_write"
    /\ user' = [user EXCEPT !.daily_reset_date = isoformat_date(req[r].today),
                            !.daily_analogies_generated = 0]
    /\ Goto(r, "cr_fresh")
    /\ hist' = [hist EXCEPT !.did_reset = TRUE]
    /\ UNCHANGED <<now, analogies, streak_logs, stats, client_tz, snap>>

\* the fresh read of the count after the reset
CRFresh(r) ==
    /\ req[r].pc = "cr_fresh"
    /\ req' = [req EXCEPT ![r] =
                 [@ EXCEPT !.pc = AfterCheck(req[r].kind),
                           !.count = user.daily_analogies_generated]]
    /\ UNCHANGED <<now, user, analogies, streak_logs, stats, hist, client_tz, snap>>

\* the daily limit, the rate limit, then the count of stored analogies and
\* the storage limit; the handler raises 429 at the first that fails
Gate(r) ==
    /\ req[r].pc = "gate"
    /\ LET q == req[r]
           sl == IF q.kind = "generate" THEN generate_storage_limit(q.plan)
                 ELSE regenerate_storage_limit(q.plan)
           out == IF q.kind = "generate"
                  THEN generate_gate(q.count, q.limits, q.last, now, analogies, sl)
                  ELSE regenerate_gate(q.count, q.limits, q.last, now, analogies, sl)
           rc == IF q.kind = "generate"
                 THEN generate_rate_check(q.last, now, q.limits[2])
                 ELSE regenerate_rate_check(q.last, now, q.limits[2])
       IN req' = [req EXCEPT ![r] =
                    [@ EXCEPT !.pc = out, !.gate_t = now, !.stored = analogies,
                              !.storage_limit = sl,
                              !.remaining = IF out = "rej_rate" THEN rc[2] ELSE 0]]
    /\ UNCHANGED <<now, user, analogies, streak_logs, stats, hist, client_tz, snap>>

\* the handler returns (a response or an HTTP error) and the slot is free
Return(r) ==
    /\ req[r].pc \in {"rej_quota", "rej_rate", "rej_storage", "failed", "done", "login_done",
                     "v_done", "f_done", "a_done"}
    /\ req' = [req EXCEPT ![r] = IdleReq]
    /\ UNCHANGED <<now, user, analogies, streak_logs, stats, hist, client_tz, snap>>

----------------------------------------------------------------------------
(* STEP 2: the generation, the save and the accounting. *)

\* the Content Generation and Image Synthesis services answer
GenerationSucceeds(r) ==
    /\ req[r].pc = "generating"
    /\ Goto(r, "pre_streak")
    /\ UNCHANGED <<now, user, analogies, streak_logs, stats, hist, client_tz, snap>>

\* timeout, network error or any other error of the generation: 408/503/500
GenerationFails(r) ==
    /\ req[r].pc = "generating"
    /\ Goto(r, "failed")
    /\ UNCHANGED <<now, user, analogies, streak_logs, stats, hist, client_tz, snap>>

\* "Check if this analogy will update the streak before saving": reads
\* today's streak log and the streak fields, and finds the streak broken or not
PreStreak(r) ==
    /\ req[r].pc = "pre_streak"
    /\ LET d == get_user_current_date(req[r].tz, now)
           broken == streak_broken(user.last_streak_date, d)
       IN req' = [req EXCEPT ![r] =
                    [@ EXCEPT !.pc = IF broken /\ user.current_streak_count > 0
                                     THEN "pre_reset" ELSE "save",
                              !.already = BagIn(d, streak_logs)]]
    /\ UNCHANGED <<now, user, analogies, streak_logs, stats, hist, client_tz, snap>>

\* "If streak is broken and current streak > 0, reset it to 0"
PreStreakReset(r) ==
    /\ req[r].pc = "pre_reset"
    /\ user' = [user EXCEPT !.current_streak_count = 0,
                            !.streak_reset_acknowledged = FALSE]
    /\ Goto(r, "save")
    /\ UNCHANGED <<now, analogies, streak_logs, stats, hist, client_tz, snap>>

\* the analogy is inserted into the analogies table
SaveAnalogy(r) ==
    /\ req[r].pc = "save"
    /\ analogies' = analogies + 1
    /\ Goto(r, "streak")
    /\ UNCHANGED <<now, user, streak_logs, stats, hist, client_tz, snap>>

\* a variant in which the daily count is charged before the save
SaveFails_charged(r) ==
    /\ req[r].pc = "save"
    /\ user' = [user EXCEPT !.daily_analogies_generated = @ + 1]
    /\ Goto(r, "failed")
    /\ UNCHANGED <<now, analogies, streak_logs, stats, hist, client_tz, snap>>

\* the insert fails or returns no data: 500
SaveFails(r) ==
    /\ req[r].pc = "save"
    /\ Goto(r, "failed")
    /\ UNCHANGED <<now, user, analogies, streak_logs, stats, hist, client_tz, snap>>

\* "Update user streak after successfully saving the analogy": skipped when
\* the pre-check saw a log for today; otherwise update_user_streak looks for
\* today's log again, reads the streak fields and computes the new ones
StreakRead(r) ==
    /\ req[r].pc = "streak"
    /\ LET d == get_user_current_date(req[r].tz, now)
           n == new_streak_count(user.last_streak_date, user.current_streak_count, d)
       IN req' = [req EXCEPT ![r] =
                    IF req[r].already \/ BagIn(d, streak_logs)
                    THEN [@ EXCEPT !.pc = "lifetime_read"]
                    ELSE [@ EXCEPT !.pc = "streak_write", !.s_date = d, !.s_time = now,
                                   !.s_new = n,
                                   !.s_longest = Max(user.longest_streak_count, n)]]
    /\ UNCHANGED <<now, user, analogies, streak_logs, stats, hist, client_tz, snap>>

\* update_user_streak writes the streak fields and last_analogy_time, the
\* latter as datetime.now(timezone.utc).isoformat()
StreakWrite(r) ==
    /\ req[r].pc = "streak_write"
    /\ user' = [user EXCEPT !.current_streak_count = req[r].s_new,
                            !.longest_streak_count = req[r].s_longest,
                            !.last_streak_date = isoformat_date(req[r].s_date),
                            !.last_analogy_time = isoformat_aware(req[r].s_time)]
    /\ Goto(r, "streak_log")
    /\ UNCHANGED <<now, analogies, streak_logs, stats, hist, client_tz, snap>>

\* a table without the constraint
unique_user_day_absent(logs, d) == TRUE

\* the unique_user_day constraint of the streak_logs table: a row is accepted
\* when the table has no row of the same user and date
unique_user_day(logs, d) == ~BagIn(d, logs)

\* insert_streak_log: the insert, or the constraint's refusal, which the
\* function catches and answers with False; update_user_streak ignores the
\* answer and returns the new streak
StreakLog(r) ==
    /\ req[r].pc = "streak_log"
    /\ LET ok == unique_user_day(streak_logs, req[r].s_date)
       IN /\ streak_logs' = IF ok THEN streak_logs (+) SetToBag({req[r].s_date})
                                  ELSE streak_logs
          /\ req' = [req EXCEPT ![r] = [@ EXCEPT !.pc = "lifetime_read", !.inserted = ok]]
    /\ UNCHANGED <<now, user, analogies, stats, hist, client_tz, snap>>

\* "Increment lifetime analogies generated count": first get the current count
LifetimeRead(r) ==
    /\ req[r].pc = "lifetime_read"
    /\ req' = [req EXCEPT ![r] =
                 [@ EXCEPT !.pc = "lifetime_write",
                           !.l_count = user.lifetime_analogies_generated]]
    /\ UNCHANGED <<now, user, analogies, streak_logs, stats, hist, client_tz, snap>>

\* "Update the count"
LifetimeWrite(r) ==
    /\ req[r].pc = "lifetime_write"
    /\ user' = [user EXCEPT !.lifetime_analogies_generated = req[r].l_count + 1]
    /\ Goto(r, "commit_read")
    /\ UNCHANGED <<now, analogies, streak_logs, stats, hist, client_tz, snap>>

\* "Get current daily count first from database"
CommitRead(r) ==
    /\ req[r].pc = "commit_read"
    /\ req' = [req EXCEPT ![r] =
                 [@ EXCEPT !.pc = "commit_write", !.c_time = now,
                           !.c_count = user.daily_analogies_generated]]
    /\ UNCHANGED <<now, user, analogies, streak_logs, stats, hist, client_tz, snap>>

\* "Update both daily count and last generation time", the time as
\* datetime.utcnow().isoformat()
CommitWrite(r) ==
    /\ req[r].pc = "commit_write"
    /\ user' = [user EXCEPT !.daily_analogies_generated = req[r].c_count + 1,
                            !.last_analogy_time = isoformat_naive(req[r].c_time)]
    /\ Goto(r, "popup")
    /\ hist' = [hist EXCEPT !.successes = @ + 1,
                            !.tally = IF req[r].today = @[1] THEN <<@[1], @[2] + 1>>
                                      ELSE IF req[r].today > @[1] THEN <<req[r].today, 1>>
                                      ELSE @]
    /\ UNCHANGED <<now, analogies, streak_logs, stats, client_tz, snap>>

\* "Update the analogy record with the correct streak_popup_shown value";
\* the handler then returns success with the analogy
PopupUpdate(r) ==
    /\ req[r].pc = "popup"
    /\ Goto(r, "done")
    /\ UNCHANGED <<now, user, analogies, streak_logs, stats, hist, client_tz, snap>>

\* where the handler goes on after an accounting step has failed: each of
\* the steps after the save is in a try block of its own whose handler only
\* prints the error
AfterFailure(pc) ==
    CASE pc \in {"streak", "streak_write", "streak_log"} -> "lifetime_read"
      [] pc \in {"lifetime_read", "lifetime_write"} -> "commit_read"
      [] pc \in {"commit_read", "commit_write"} -> "popup"
      [] OTHER -> "done"

AccountingSteps ==
    {"streak", "streak_write", "streak_log", "lifetime_read", "lifetime_write",
     "commit_read", "commit_write", "popup"}

\* a variant in which the failure of an accounting step fails the request
AccountingFails_fatal(r) ==
    /\ req[r].pc \in AccountingSteps
    /\ req' = [req EXCEPT ![r] = [@ EXCEPT !.pc = "failed", !.anomaly = TRUE]]
    /\ UNCHANGED <<now, user, analogies, streak_logs, stats, hist, client_tz, snap>>

\* the Record Store fails in an accounting step (an exception, or an update
\* that returns no data): the step is given up and the handler continues
AccountingFails(r) ==
    /\ req[r].pc \in AccountingSteps
    /\ req' = [req EXCEPT ![r] =
                 [@ EXCEPT !.pc = AfterFailure(req[r].pc), !.anomaly = TRUE]]
    /\ UNCHANGED <<now, user, analogies, streak_logs, stats, hist, client_tz, snap>>

----------------------------------------------------------------------------
(* The streak endpoints: get_user_streak (which validates the streak),     *)
(* fix_user_streak and acknowledge_streak_reset.                           *)

StreakOps == {"validate", "fix", "ack"}

\* the first round trip of each endpoint
FirstStep(kind) ==
    CASE kind = "validate" -> "v_read"
      [] kind = "fix" -> "f_read"
      [] OTHER -> "a_write"

\* a request to one of the streak endpoints arrives
StartStreakOp(r, kind) ==
    /\ req[r].pc = "idle"
    /\ hist.starts < MaxStarts
    /\ req' = [req EXCEPT ![r] =
                 [IdleReq EXCEPT !.pc = FirstStep(kind), !.kind = kind, !.tz = client_tz]]
    /\ hist' = [hist EXCEPT !.starts = @ + 1, !.logs = streak_logs]
    /\ UNCHANGED <<now, user, analogies, streak_logs, stats, client_tz>>

\* validate_and_update_user_streak reads the streak fields and decides
\* whether the streak is broken
ValidateRead(r) ==
    /\ req[r].pc = "v_read"
    /\ LET d == get_user_current_date(req[r].tz, now)
           broken == validate_streak_broken(user.last_streak_date, d)
       IN req' = [req EXCEPT ![r] =
                    [@ EXCEPT !.pc = IF broken /\ user.current_streak_count > 0
                                     THEN "v_write" ELSE "v_done",
                              !.today = d]]
    /\ UNCHANGED <<now, user, analogies, streak_logs, stats, hist, client_tz, snap>>

\* "If streak is broken and current streak > 0, reset it to 0"
ValidateWrite(r) ==
    /\ req[r].pc = "v_write"
    /\ user' = [user EXCEPT !.current_streak_count = 0,
                            !.streak_reset_acknowledged = FALSE]
    /\ Goto(r, "v_done")
    /\ UNCHANGED <<now, analogies, streak_logs, stats, hist, client_tz, snap>>

\* fix_user_streak reads the streak fields
FixRead(r) ==
    /\ req[r].pc = "f_read"
    /\ req' = [req EXCEPT ![r] =
                 [@ EXCEPT !.pc = "f_log",
                           !.today = get_user_current_date(req[r].tz, now),
                           !.f_streak = user.current_streak_count,
                           !.f_last = user.last_streak_date]]
    /\ UNCHANGED <<now, user, analogies, streak_logs, stats, hist, client_tz, snap>>

\* it looks for today's streak log and determines the correct streak count
FixLog(r) ==
    /\ req[r].pc = "f_log"
    /\ LET c == correct_streak(req[r].f_last, req[r].f_streak,
                               BagIn(req[r].today, streak_logs), req[r].today)
       IN req' = [req EXCEPT ![r] =
                    [@ EXCEPT !.pc = IF c # req[r].f_streak THEN "f_write" ELSE "f_done",
                              !.s_new = c]]
    /\ UNCHANGED <<now, user, analogies, streak_logs, stats, hist, client_tz, snap>>

\* "Update the streak if it's incorrect"
FixWrite(r) ==
    /\ req[r].pc = "f_write"
    /\ user' = [user EXCEPT !.current_streak_count = req[r].s_new,
                            !.streak_reset_acknowledged = TRUE]
    /\ Goto(r, "f_done")
    /\ UNCHANGED <<now, analogies, streak_logs, stats, hist, client_tz, snap>>

\* a variant that also forgets the last streak date
AckWrite_clears_date(r) ==
    /\ req[r].pc = "a_write"
    /\ user' = [user EXCEPT !.streak_reset_acknowledged = TRUE,
                            !.last_streak_date = None]
    /\ Goto(r, "a_done")
    /\ UNCHANGED <<now, analogies, streak_logs, stats, hist, client_tz, snap>>

\* acknowledge_streak_reset: "Update the streak_reset_acknowledged field to True"
AckWrite(r) ==
    /\ req[r].pc = "a_write"
    /\ user' = [user EXCEPT !.streak_reset_acknowledged = TRUE]
    /\ Goto(r, "a_done")
    /\ UNCHANGED <<now, analogies, streak_logs, stats, hist, client_tz, snap>>

----------------------------------------------------------------------------
(* get_user_pricing_stats: plan and limits as the pricing page shows them. *)

PricingStats ==
    /\ stats' = Some(<<user.plan, pricing_stats_limits(user.plan)>>)
    /\ stats' # stats
    /\ UNCHANGED <<now, user, analogies, streak_logs, req, hist, client_tz, snap>>

----------------------------------------------------------------------------
(* The clock. *)

\* the first instant of every behaviour: 02:00 UTC of day 1
T0 == Hour(26)

\* instants of the day grid: 02:00, 10:00 and 16:00 UTC of each day, so that
\* the local midnights of all KnownZones fall between two of them
DayInstants == {T0 + Hour(24 * d + h) : d \in 0..(MaxDays - 1), h \in {0, 8, 14}}

\* instants of the second grid: the rate intervals of the plans after T0
SecondInstants == {T0 + Sec(12), T0 + Sec(60)}

\* time passes up to a later instant of the grid
Advance(grid) ==
    /\ \E t \in grid : t > now /\ now' = t
    /\ UNCHANGED <<user, analogies, streak_logs, req, stats, hist, client_tz, snap>>

\* a handler's round trips follow each other at once; hours pass only between
\* two requests and while a request waits for the generation
AdvanceDay ==
    /\ \A r \in Reqs : req[r].pc \in {"idle", "generating"}
    /\ Advance(DayInstants)
AdvanceSeconds ==
    /\ \A r \in Reqs : req[r].pc \in {"idle", "generating"}
    /\ Advance(SecondInstants)

----------------------------------------------------------------------------
(* Initial states: an account as sign_up_user creates it, or one that has *)
(* generated analogies before, seen at T0.                                *)

Plans == {"curious", "scholar", "premium"}

\* the row sign_up_user inserts
SignedUp(plan) ==
    [plan |-> plan, daily_analogies_generated |-> 0, daily_reset_date |-> None,
     last_analogy_time |-> None, current_streak_count |-> 0,
     longest_streak_count |-> 0, last_streak_date |-> None,
     lifetime_analogies_generated |-> 0,
     streak_reset_acknowledged |-> TRUE,
     upcoming_plan |-> plan, plan_cancelled |-> FALSE, renewal_date |-> None,
     subscription_start_date |-> None, stripe_subscription_id |-> None]

\* the row after count analogies, the last one at instant t, with the daily
\* reset date and the streak date at local day d
Active(plan, count, t, d) ==
    [plan |-> plan, daily_analogies_generated |-> count,
     daily_reset_date |-> isoformat_date(d),
     last_analogy_time |-> isoformat_naive(t), current_streak_count |-> 1,
     longest_streak_count |-> 1, last_streak_date |-> isoformat_date(d),
     lifetime_analogies_generated |-> count,
     streak_reset_acknowledged |-> TRUE,
     upcoming_plan |-> plan, plan_cancelled |-> FALSE, renewal_date |-> None,
     subscription_start_date |-> None, stripe_subscription_id |-> None]

InitCommon(z, row, stored, logs) ==
    /\ now = T0
    /\ client_tz = z
    /\ user = row
    /\ analogies = stored
    /\ streak_logs = SetToBag(logs)
    /\ req = [r \in Reqs |-> IdleReq]
    /\ stats = None
    /\ snap = row
    /\ hist = [starts |-> 0, successes |-> 0, did_reset |-> FALSE,
               count0 |-> row.daily_analogies_generated,
               logs |-> SetToBag(logs),
               event |-> None, applied |-> row, replayed |-> FALSE,
               op |-> "none", result |-> "none", asked |-> None, ended |-> {},
               admin |-> FALSE,
               tally |-> <<get_user_current_date(z, T0),
                           IF row.daily_reset_date = isoformat_date(get_user_current_date(z, T0))
                           THEN row.daily_analogies_generated ELSE 0>>,
               checked |-> IF row.daily_reset_date = None THEN {}
                           ELSE {<<z, row.daily_reset_date[2]>>},
               max_day |-> get_user_current_date(z, T0)]

\* a new account
InitSignedUp(z, plan) == InitCommon(z, SignedUp(plan), 0, {})

\* an account active today: count analogies today, the last one `ago` ticks
\* before T0, `stored` analogies kept
InitActiveToday(z, plan, count, ago, stored) ==
    LET d == get_user_current_date(z, T0)
    IN InitCommon(z, Active(plan, count, T0 - ago, d), stored, {d})

\* an account last active `days` days ago
InitActiveDaysAgo(z, plan, count, days, stored) ==
    LET d == get_user_current_date(z, T0) - days
    IN InitCommon(z, Active(plan, count, T0 - Hour(24 * days), d), stored, {d})

\* counts at and just under the daily limit of the plan
NearDailyLimit(plan) == {generate_limits(plan)[1] - 1, generate_limits(plan)[1]}
\* stored analogies at and just under the storage limit of the plan
NearStorageLimit(plan) == {generate_storage_limit(plan) - 1, generate_storage_limit(plan)}

\* overlapping requests of one client in UTC on the curious plan: one unit
\* of the daily quota left, the last activity one or three days ago, or a
\* new account
Init ==
    \/ InitActiveToday("UTC", "curious", generate_limits("curious")[1] - 1, Hour(1), 1)
    \/ InitActiveDaysAgo("UTC", "curious", 1, 3, 1)
    \/ InitActiveDaysAgo("UTC", "curious", 1, 1, 1)
    \/ InitSignedUp("UTC", "curious")

\* requests one at a time: clients of every zone on the curious plan and
\* clients in UTC on every plan
InitSeq ==
    \E z \in KnownZones, plan \in Plans :
       /\ z = "UTC" \/ plan = "curious"
       /\ \/ InitSignedUp(z, plan)
          \/ \E count \in NearDailyLimit(plan), stored \in NearStorageLimit(plan) :
                \/ \E ago \in {1, Hour(1)} : InitActiveToday(z, plan, count, ago, stored)
                \/ InitActiveDaysAgo(z, plan, count, 1, stored)

----------------------------------------------------------------------------
(* The Stripe webhook. Every handler is one update of the user row; the    *)
(* server's clock is taken to be UTC.                                      *)

SubscriptionIds == {"sub_1"}
Statuses == {"active", "canceled", "past_due", "incomplete"}

\* current_period_end of the subscriptions: a month of 31 days after T0
PeriodEnds == {T0 + Hour(24 * 31)}

\* a subscription whose metadata names no user
Anonymous ==
    [id |-> "sub_1", user_id |-> None, status |-> "active",
     cancel_at_period_end |-> FALSE, current_period_end |-> None]

\* Stripe subscription objects; user_id is the entry of the metadata
Subscriptions ==
    [id : SubscriptionIds, user_id : {Some("user")}, status : Statuses,
     cancel_at_period_end : BOOLEAN,
     current_period_end : {None} \cup {Some(t) : t \in PeriodEnds}]
    \cup {Anonymous}

\* what stripe.Subscription.retrieve returns: the subscription while it runs
\* and after it has ended
Retrievable == {s \in Subscriptions : s.status \in {"active", "canceled"}}

\* subscriptions as the events other than customer.subscription.updated
\* carry them
Running == {s \in Subscriptions : s.status = "active" /\ ~s.cancel_at_period_end}

\* invoices: the subscription they bill and the next payment attempt
Invoices ==
    [subscription : {None} \cup {Some(i) : i \in SubscriptionIds},
     next_payment_attempt : {None, Some(T0 + Hour(24 * 3))}]

\* checkout sessions
Sessions ==
    [user_id : {None, Some("user")},
     subscription : {None} \cup {Some(i) : i \in SubscriptionIds}]

SubscriptionEvents ==
    {"customer.subscription.created", "customer.subscription.deleted",
     "customer.subscription.trial_will_end", "customer.subscription.paused",
     "customer.subscription.resumed"}
InvoiceEvents ==
    {"invoice.paid", "invoice.payment_failed", "invoice.payment_action_required"}

Events ==
    [type : SubscriptionEvents, object : Running]
    \cup [type : {"customer.subscription.updated"}, object : Subscriptions]
    \cup [type : InvoiceEvents, object : Invoices]
    \cup [type : {"checkout.session.completed"}, object : Sessions]
    \cup [type : {"charge.refunded"}, object : {None}]

\* datetime.fromtimestamp(current_period_end).strftime("%Y-%m-%d")
renewal_date_of(current_period_end) ==
    isoformat_date(get_user_current_date("UTC", current_period_end))

\* (current_time + timedelta(days=30)).strftime("%Y-%m-%d")
fallback_renewal_date(current_time) ==
    isoformat_date(get_user_current_date("UTC", current_time) + 30)

\* the renewal date of a subscription, None without a current_period_end
stripe_renewal_date(subscription) ==
    IF subscription.current_period_end = None THEN None
    ELSE Some(renewal_date_of(subscription.current_period_end[1]))

\* the update of the row that grants the scholar plan
scholar_update(row, start, renewal, subscription_id) ==
    [row EXCEPT !.plan = "scholar",
                !.subscription_start_date = Some(isoformat_naive(start)),
                !.renewal_date = Some(renewal),
                !.upcoming_plan = "scholar",
                !.plan_cancelled = FALSE,
                !.stripe_subscription_id = subscription_id]

\* the update of plan, upcoming_plan and plan_cancelled
plan_update(row, plan, upcoming_plan, plan_cancelled) ==
    [row EXCEPT !.plan = plan, !.upcoming_plan = upcoming_plan,
                !.plan_cancelled = plan_cancelled]

\* a variant that leaves the renewal date alone
plan_update_unsynced(row, plan, upcoming_plan, plan_cancelled, renewal) ==
    plan_update(row, plan, upcoming_plan, plan_cancelled)

\* the same with the renewal date when Stripe gave one
plan_update_synced(row, plan, upcoming_plan, plan_cancelled, renewal) ==
    IF renewal = None THEN plan_update(row, plan, upcoming_plan, plan_cancelled)
    ELSE [plan_update(row, plan, upcoming_plan, plan_cancelled)
             EXCEPT !.renewal_date = renewal]

\* a variant that forgets the subscription
ended_update_forgetful(row) ==
    [plan_update(row, "curious", "curious", FALSE)
        EXCEPT !.subscription_start_date = None, !.renewal_date = None,
               !.stripe_subscription_id = None]

\* the downgrade of an ended subscription; stripe_subscription_id is kept
ended_update(row) ==
    [plan_update(row, "curious", "curious", FALSE)
        EXCEPT !.subscription_start_date = None, !.renewal_date = None]

\* retrieved is the subscription stripe.Subscription.retrieve returns
handle_checkout_session_completed(row, session, retrieved, current_time) ==
    IF session.user_id = None THEN row
    ELSE LET renewal == IF session.subscription = None THEN None
                        ELSE stripe_renewal_date(retrieved)
         IN scholar_update(row, current_time,
                           IF renewal = None THEN fallback_renewal_date(current_time)
                           ELSE renewal[1],
                           session.subscription)

handle_subscription_created(row, subscription, current_time) ==
    IF subscription.user_id = None THEN row
    ELSE scholar_update(row, current_time,
                        IF stripe_renewal_date(subscription) = None
                        THEN fallback_renewal_date(current_time)
                        ELSE stripe_renewal_date(subscription)[1],
                        Some(subscription.id))

handle_subscription_updated(row, subscription) ==
    IF subscription.user_id = None THEN row
    ELSE IF subscription.status = "active" /\ subscription.cancel_at_period_end
         THEN plan_update_synced(row, "scholar", "curious", TRUE,
                                 stripe_renewal_date(subscription))
    ELSE IF subscription.status = "active"
         THEN plan_update_synced(row, "scholar", "scholar", FALSE,
                                 stripe_renewal_date(subscription))
    ELSE IF subscription.status \in {"canceled", "unpaid"} THEN ended_update(row)
    ELSE IF subscription.status = "past_due" THEN row
    ELSE IF subscription.status \in {"incomplete", "incomplete_expired"}
         THEN plan_update(row, "curious", "curious", FALSE)
    ELSE row

\* a variant that does not look for the user id
handle_subscription_deleted_any_user(row, subscription) == ended_update(row)

handle_subscription_deleted(row, subscription) ==
    IF subscription.user_id = None THEN row ELSE ended_update(row)

\* a variant that does not look for the user id
handle_invoice_paid_any_user(row, invoice, retrieved, current_time) ==
    IF invoice.subscription = None THEN row
    ELSE [plan_update(row, "scholar", "scholar", FALSE)
             EXCEPT !.renewal_date =
                        IF stripe_renewal_date(retrieved) = None
                        THEN Some(fallback_renewal_date(current_time))
                        ELSE stripe_renewal_date(retrieved)]

handle_invoice_paid(row, invoice, retrieved, current_time) ==
    IF invoice.subscription = None \/ retrieved.user_id = None THEN row
    ELSE [plan_update(row, "scholar", "scholar", FALSE)
             EXCEPT !.renewal_date =
                        IF stripe_renewal_date(retrieved) = None
                        THEN Some(fallback_renewal_date(current_time))
                        ELSE stripe_renewal_date(retrieved)]

handle_payment_failed(row, invoice, retrieved) ==
    IF invoice.subscription = None \/ retrieved.user_id = None THEN row
    ELSE IF invoice.next_payment_attempt = None
         THEN plan_update(row, "curious", "curious", FALSE)
    ELSE row

handle_subscription_paused(row, subscription) ==
    IF subscription.user_id = None THEN row
    ELSE plan_update(row, "curious", "curious", FALSE)

handle_subscription_resumed(row, subscription) ==
    IF subscription.user_id = None THEN row
    ELSE plan_update(row, "scholar", "scholar", FALSE)

\* the dispatch on the type of the event; the other types change nothing
stripe_webhook(row, event, retrieved, current_time) ==
    CASE event.type = "checkout.session.completed" ->
             handle_checkout_session_completed(row, event.object, retrieved, current_time)
      [] event.type = "customer.subscription.created" ->
             handle_subscription_created(row, event.object, current_time)
      [] event.type = "customer.subscription.updated" ->
             handle_subscription_updated(row, event.object)
      [] event.type = "customer.subscription.deleted" ->
             handle_subscription_deleted(row, event.object)
      [] event.type = "invoice.paid" ->
             handle_invoice_paid(row, event.object, retrieved, current_time)
      [] event.type = "invoice.payment_failed" ->
             handle_payment_failed(row, event.object, retrieved)
      [] event.type = "customer.subscription.paused" ->
             handle_subscription_paused(row, event.object)
      [] event.type = "customer.subscription.resumed" ->
             handle_subscription_resumed(row, event.object)
      [] OTHER -> row

\* the handler of the event asks Stripe for the subscription
Retrieves(event) ==
    \/ /\ event.type \in InvoiceEvents
       /\ event.object.subscription # None
    \/ /\ event.type = "checkout.session.completed"
       /\ event.object.user_id # None
       /\ event.object.subscription # None

\* the subscriptions the handler of the event may get from Stripe; Anonymous
\* stands for the subscription when the handler does not ask for it
Lookups(event) == IF Retrieves(event) THEN Retrievable ELSE {Anonymous}

\* the event reports that the subscription has ended
EndedEvent(event) ==
    \/ event.type = "customer.subscription.deleted"
    \/ /\ event.type = "customer.subscription.updated"
       /\ event.object.status \in {"canceled", "unpaid"}

\* the subscriptions whose end the account has been told of
ended_after(ended, event) ==
    IF EndedEvent(event) /\ event.object.user_id # None
    THEN ended \cup {event.object.id} ELSE ended

\* the record of the latest operation: its name, its result and the
\* cancel_at_period_end it asked Stripe to set (None when it asked nothing)
Operation(op, result, asked) ==
    [hist EXCEPT !.op = op, !.result = result, !.asked = asked,
                 !.event = None, !.replayed = FALSE]

\* Stripe delivers an event
Deliver(event, retrieved) ==
    /\ user' = stripe_webhook(user, event, retrieved, now)
    /\ hist' = [Operation("deliver", "success", None)
                  EXCEPT !.event = Some(event), !.applied = user',
                         !.ended = ended_after(hist.ended, event)]
    /\ UNCHANGED <<now, analogies, streak_logs, req, stats, client_tz, snap>>

\* Stripe delivers the latest event once more
Redeliver(retrieved) ==
    /\ hist.event # None
    /\ user' = stripe_webhook(user, hist.event[1], retrieved, now)
    /\ hist' = [Operation("redeliver", "success", None)
                  EXCEPT !.event = hist.event, !.replayed = TRUE]
    /\ UNCHANGED <<now, analogies, streak_logs, req, stats, client_tz, snap>>

\* the answers of stripe_webhook to a request without the stripe-signature
\* header, to a payload construct_event cannot parse and to a signature it
\* cannot verify
Rejections ==
    {"400 No signature provided", "400 Invalid payload", "400 Invalid signature"}

\* such a request arrives: the endpoint raises before it looks at the event
Reject(detail) ==
    /\ hist' = Operation("reject", detail, None)
    /\ UNCHANGED <<now, user, analogies, streak_logs, req, stats, client_tz, snap>>

----------------------------------------------------------------------------
(* The plan endpoints of the user and the admin endpoints. Each is taken   *)
(* as one step.                                                            *)

\* a null plan column
NoPlan == "null"

\* date.isoformat() stored in the subscription_start_date column
isoformat_date_only(d) == <<d * TicksPerDay, "date">>

\* the update of upgrade_user_plan
upgrade_user_plan(row, current_time) ==
    [row EXCEPT !.plan = "scholar",
                !.subscription_start_date = Some(isoformat_naive(current_time)),
                !.upcoming_plan = "scholar",
                !.plan_cancelled = FALSE]

\* the update of downgrade_user_plan
downgrade_user_plan(row) ==
    [row EXCEPT !.upcoming_plan = "curious", !.plan_cancelled = TRUE]

\* a variant that gives the plan back
resume_user_plan_restoring(row) ==
    [row EXCEPT !.plan = "scholar", !.upcoming_plan = "scholar",
                !.plan_cancelled = FALSE]

\* the update of resume_user_plan
resume_user_plan(row) ==
    [row EXCEPT !.upcoming_plan = "scholar", !.plan_cancelled = FALSE]

\* the stored renewal date is on or before the date
renewal_due(row, date) ==
    row.renewal_date # None /\ row.renewal_date[1][2] <= date

\* "Process billing cycle renewals for the simulated date"
simulated_renewal(row, simulated_date) ==
    IF row.plan = "scholar" /\ ~row.plan_cancelled /\ renewal_due(row, simulated_date)
    THEN [row EXCEPT !.subscription_start_date =
                         Some(isoformat_date_only(row.renewal_date[1][2])),
                     !.renewal_date =
                         Some(isoformat_date(row.renewal_date[1][2] + 30))]
    ELSE row

\* "Process scheduled downgrades for the simulated date"
simulated_downgrade(row, simulated_date) ==
    IF row.plan_cancelled /\ renewal_due(row, simulated_date)
    THEN [row EXCEPT !.plan = "free", !.subscription_start_date = None,
                     !.renewal_date = None, !.upcoming_plan = NoPlan,
                     !.plan_cancelled = FALSE]
    ELSE row

simulate_date_for_testing(row, simulated_date) ==
    simulated_downgrade(simulated_renewal(row, simulated_date), simulated_date)

\* the update of sync_user_plan_from_stripe
sync_user_plan_from_stripe(row, subscription) ==
    LET plan == IF subscription.status = "active" THEN "scholar" ELSE "curious"
        plan_cancelled ==
            subscription.status = "active" /\ subscription.cancel_at_period_end
    IN plan_update_synced(row, plan, IF plan_cancelled THEN "curious" ELSE plan,
                          plan_cancelled, stripe_renewal_date(subscription))

\* the update of sync_renewal_date_from_stripe
sync_renewal_date_from_stripe(row, subscription) ==
    IF stripe_renewal_date(subscription) = None THEN row
    ELSE [row EXCEPT !.renewal_date = stripe_renewal_date(subscription)]

\* the dates given to the date simulation: today and the end of the period
SimulatedDates ==
    {get_user_current_date("UTC", T0)}
    \cup {get_user_current_date("UTC", t) : t \in PeriodEnds}

\* a step of a plan endpoint
PlanStep(row, op, result, asked) ==
    /\ user' = row
    /\ hist' = [Operation(op, result, asked) EXCEPT !.applied = row]
    /\ UNCHANGED <<now, analogies, streak_logs, req, stats, client_tz, snap>>

Upgrade == PlanStep(upgrade_user_plan(user, now), "upgrade", "success", None)

\* the row is updated first; an error of Stripe is printed only
Downgrade ==
    PlanStep(downgrade_user_plan(user), "downgrade", "success",
             IF user.stripe_subscription_id = None THEN None ELSE Some(TRUE))

\* accepted: Stripe carries out the request
Resume(accepted) ==
    IF user.stripe_subscription_id = None
    THEN PlanStep(user, "resume", "400 No active subscription found", None)
    ELSE IF ~accepted
    THEN PlanStep(user, "resume", "400 Failed to resume subscription", Some(FALSE))
    ELSE PlanStep(resume_user_plan(user), "resume", "success", Some(FALSE))

\* a step of an admin endpoint
AdminStep(row, op, result) ==
    /\ user' = row
    /\ hist' = [Operation(op, result, None) EXCEPT !.applied = row, !.admin = TRUE]
    /\ UNCHANGED <<now, analogies, streak_logs, req, stats, client_tz, snap>>

SimulateDate(simulated_date) ==
    AdminStep(simulate_date_for_testing(user, simulated_date), "simulate-date",
              "success")

SyncUserPlan(retrieved) ==
    IF user.stripe_subscription_id = None
    THEN AdminStep(user, "sync-user-plan", "400 No Stripe subscription found for user")
    ELSE AdminStep(sync_user_plan_from_stripe(user, retrieved), "sync-user-plan",
                   "success")

SyncRenewalDate(retrieved) ==
    IF user.stripe_subscription_id = None
    THEN AdminStep(user, "sync-renewal-date",
                   "400 No Stripe subscription found for user")
    ELSE AdminStep(sync_renewal_date_from_stripe(user, retrieved), "sync-renewal-date",
                   IF stripe_renewal_date(retrieved) = None
                   THEN "500 Failed to sync renewal date from Stripe" ELSE "success")

----------------------------------------------------------------------------
(* Specifications. *)

\* every slot serves one request
ConcStart(r, kind) ==
    /\ hist.starts < NReq
    /\ StartAccounted(r, kind)
    /\ UNCHANGED snap

ConcStartStreakOp(r, kind) ==
    /\ hist.starts < NReq
    /\ StartStreakOp(r, kind)
    /\ UNCHANGED snap

\* overlapping requests of one account
Next ==
    \/ \E r \in Reqs : ConcStart(r, "generate")
    \/ \E r \in Reqs : ConcStart(r, "regenerate")
    \/ \E r \in Reqs : ConcStartStreakOp(r, "validate")
    \/ \E r \in Reqs : ConcStartStreakOp(r, "fix")
    \/ \E r \in Reqs : ConcStartStreakOp(r, "ack")
    \/ \E r \in Reqs : ValidateRead(r)
    \/ \E r \in Reqs : ValidateWrite(r)
    \/ \E r \in Reqs : FixRead(r)
    \/ \E r \in Reqs : FixLog(r)
    \/ \E r \in Reqs : FixWrite(r)
    \/ \E r \in Reqs : AckWrite(r)
    \/ \E r \in Reqs : CRRead(r)
    \/ \E r \in Reqs : CRWrite(r)
    \/ \E r \in Reqs : CRFresh(r)
    \/ \E r \in Reqs : Gate(r)
    \/ \E r \in Reqs : GenerationSucceeds(r)
    \/ \E r \in Reqs : GenerationFails(r)
    \/ \E r \in Reqs : PreStreak(r)
    \/ \E r \in Reqs : PreStreakReset(r)
    \/ \E r \in Reqs : SaveAnalogy(r)
    \/ \E r \in Reqs : SaveFails(r)
    \/ \E r \in Reqs : StreakRead(r)
    \/ \E r \in Reqs : StreakWrite(r)
    \/ \E r \in Reqs : StreakLog(r)
    \/ \E r \in Reqs : LifetimeRead(r)
    \/ \E r \in Reqs : LifetimeWrite(r)
    \/ \E r \in Reqs : CommitRead(r)
    \/ \E r \in Reqs : CommitWrite(r)
    \/ \E r \in Reqs : PopupUpdate(r)
    \/ \E r \in Reqs : Return(r)
    \/ AdvanceSeconds

Spec == Init /\ [][Next]_vars

\* the first local midnight after T0 of a client in UTC
NextMidnight == ((T0 \div TicksPerDay) + 1) * TicksPerDay

\* the clock passes that midnight, wherever the handlers are: two round
\* trips of overlapping requests may fall on either side of it
Midnight ==
    /\ now < NextMidnight
    /\ now' = NextMidnight
    /\ UNCHANGED <<user, analogies, streak_logs, req, stats, hist, client_tz, snap>>

\* an account of the curious plan in UTC that was last active yesterday
InitMidnight == InitActiveDaysAgo("UTC", "curious", 1, 1, 1)

\* overlapping requests of one account around midnight
NextMidnightRequests ==
    \/ \E r \in Reqs : ConcStart(r, "generate")
    \/ \E r \in Reqs : ConcStart(r, "regenerate")
    \/ \E r \in Reqs : ConcStartStreakOp(r, "validate")
    \/ \E r \in Reqs : ConcStartStreakOp(r, "fix")
    \/ \E r \in Reqs : ConcStartStreakOp(r, "ack")
    \/ \E r \in Reqs : ValidateRead(r)
    \/ \E r \in Reqs : ValidateWrite(r)
    \/ \E r \in Reqs : FixRead(r)
    \/ \E r \in Reqs : FixLog(r)
    \/ \E r \in Reqs : FixWrite(r)
    \/ \E r \in Reqs : AckWrite(r)
    \/ \E r \in Reqs : CRRead(r)
    \/ \E r \in Reqs : CRWrite(r)
    \/ \E r \in Reqs : CRFresh(r)
    \/ \E r \in Reqs : Gate(r)
    \/ \E r \in Reqs : GenerationSucceeds(r)
    \/ \E r \in Reqs : GenerationFails(r)
    \/ \E r \in Reqs : PreStreak(r)
    \/ \E r \in Reqs : PreStreakReset(r)
    \/ \E r \in Reqs : SaveAnalogy(r)
    \/ \E r \in Reqs : SaveFails(r)
    \/ \E r \in Reqs : StreakRead(r)
    \/ \E r \in Reqs : StreakWrite(r)
    \/ \E r \in Reqs : StreakLog(r)
    \/ \E r \in Reqs : LifetimeRead(r)
    \/ \E r \in Reqs : LifetimeWrite(r)
    \/ \E r \in Reqs : CommitRead(r)
    \/ \E r \in Reqs : CommitWrite(r)
    \/ \E r \in Reqs : PopupUpdate(r)
    \/ \E r \in Reqs : Return(r)
    \/ Midnight

SpecMidnight == InitMidnight /\ [][NextMidnightRequests]_vars

\* no handler is running
Quiet == \A r \in Reqs : ~InFlight(r)

SeqStartAccounted(kind) == Quiet /\ StartAccounted(1, kind) /\ snap' = user
SeqStartLogin == Quiet /\ StartLogin(1) /\ snap' = user
SeqPricingStats == Quiet /\ PricingStats
SeqStartStreakOp(kind) == Quiet /\ StartStreakOp(1, kind) /\ snap' = user

\* the same handlers, one request at a time, with the login reset check and
\* the pricing statistics, over days
NextSeq ==
    \/ SeqStartAccounted("generate")
    \/ SeqStartAccounted("regenerate")
    \/ SeqStartLogin
    \/ SeqPricingStats
    \/ SeqStartStreakOp("validate")
    \/ SeqStartStreakOp("fix")
    \/ SeqStartStreakOp("ack")
    \/ ValidateRead(1)
    \/ ValidateWrite(1)
    \/ FixRead(1)
    \/ FixLog(1)
    \/ FixWrite(1)
    \/ AckWrite(1)
    \/ CRRead(1)
    \/ CRWrite(1)
    \/ CRFresh(1)
    \/ Gate(1)
    \/ GenerationSucceeds(1)
    \/ GenerationFails(1)
    \/ PreStreak(1)
    \/ PreStreakReset(1)
    \/ SaveAnalogy(1)
    \/ SaveFails(1)
    \/ StreakRead(1)
    \/ StreakWrite(1)
    \/ StreakLog(1)
    \/ LifetimeRead(1)
    \/ LifetimeWrite(1)
    \/ CommitRead(1)
    \/ CommitWrite(1)
    \/ PopupUpdate(1)
    \/ Return(1)
    \/ AdvanceDay

SpecSeq == InitSeq /\ [][NextSeq]_vars

\* identifiers pytz.timezone does not know
UnknownZones == {"Mars/Olympus_Mons"}

\* accounts of the curious plan whose client sends such an identifier
InitZone ==
    \E z \in UnknownZones :
       \/ InitSignedUp(z, "curious")
       \/ \E count \in NearDailyLimit("curious"), stored \in NearStorageLimit("curious") :
             \/ \E ago \in {1, Hour(1)} : InitActiveToday(z, "curious", count, ago, stored)
             \/ InitActiveDaysAgo(z, "curious", count, 1, stored)

\* the requests of SpecSeq from such a client
SpecZone == InitZone /\ [][NextSeq]_vars

\* accounts of the curious plan in UTC: a new one and one whose streak is
\* broken
InitAnomaly ==
    \/ InitSignedUp("UTC", "curious")
    \/ InitActiveDaysAgo("UTC", "curious", 1, 3, 1)

\* generate and regenerate requests of one day, one at a time, with failures
\* of the Record Store in the accounting steps
NextAnomaly ==
    \/ SeqStartAccounted("generate")
    \/ SeqStartAccounted("regenerate")
    \/ CRRead(1)
    \/ CRWrite(1)
    \/ CRFresh(1)
    \/ Gate(1)
    \/ GenerationSucceeds(1)
    \/ GenerationFails(1)
    \/ PreStreak(1)
    \/ PreStreakReset(1)
    \/ SaveAnalogy(1)
    \/ SaveFails(1)
    \/ StreakRead(1)
    \/ StreakWrite(1)
    \/ StreakLog(1)
    \/ LifetimeRead(1)
    \/ LifetimeWrite(1)
    \/ CommitRead(1)
    \/ CommitWrite(1)
    \/ PopupUpdate(1)
    \/ AccountingFails(1)
    \/ Return(1)
    \/ AdvanceSeconds

SpecAnomaly == InitAnomaly /\ [][NextAnomaly]_vars

\* the events of Stripe for an account, each of them possibly delivered
\* again, the plan endpoints of the user and the admin endpoints
NextBilling ==
    \/ \E event \in Events : \E retrieved \in Lookups(event) : Deliver(event, retrieved)
    \/ /\ hist.event # None
       /\ \E retrieved \in Lookups(hist.event[1]) : Redeliver(retrieved)
    \/ \E detail \in Rejections : Reject(detail)
    \/ Upgrade
    \/ Downgrade
    \/ \E accepted \in BOOLEAN : Resume(accepted)
    \/ \E simulated_date \in SimulatedDates : SimulateDate(simulated_date)
    \/ \E retrieved \in Retrievable : SyncUserPlan(retrieved)
    \/ \E retrieved \in Retrievable : SyncRenewalDate(retrieved)
    \/ AdvanceSeconds

SpecBilling == InitSignedUp("UTC", "curious") /\ [][NextBilling]_vars

----------------------------------------------------------------------------
(* The limits of the specification: Free is the plan "curious" and every   *)
(* plan value the code does not recognise, Paid is the plan "scholar".     *)

Tier(plan) == IF plan = "scholar" THEN "Paid" ELSE "Free"
DailyLimit(tier) == IF tier = "Paid" THEN 100 ELSE 20
MinIntervalSeconds(tier) == IF tier = "Paid" THEN 12 ELSE 60
StorageCeiling(tier) == IF tier = "Paid" THEN 500 ELSE 100

\* the reset check of request r has completed and nothing ran since
Checked(r) == req[r].pc \in {"gate", "login_done"}

\* request r is an accounted action that has been through the gates
Gated(r) ==
    /\ req[r].kind \in Accounted
    /\ req[r].pc \notin {"idle", "cr_read", "cr_write", "cr_fresh", "gate"}

\* what each gate decides on the values request r read
QuotaRejects(r) == req[r].count >= DailyLimit(Tier(req[r].plan))
RateRejects(r) ==
    /\ req[r].last # None
    /\ req[r].gate_t - req[r].last[1] < Sec(MinIntervalSeconds(Tier(req[r].plan)))
StorageRejects(r) == req[r].stored >= StorageCeiling(Tier(req[r].plan))

----------------------------------------------------------------------------
(* Properties. *)

\* C1: overlapping accounted requests are never admitted beyond the daily
\* quota: with no daily reset, the count the account started with plus the
\* accounted actions that succeeded stays within the daily limit of the tier.
C1_NoOverAdmission ==
    ~hist.did_reset =>
        hist.count0 + hist.successes <= DailyLimit(Tier(user.plan))

\* C2: with no daily reset, the stored daily count has grown by exactly the
\* number of accounted actions that succeeded, however the commit steps of
\* overlapping requests interleave.
C2_CountGrowsBySuccesses ==
    ~hist.did_reset =>
        user.daily_analogies_generated = hist.count0 + hist.successes

\* C3: in a sequence of accounted actions and login reset checks, the number
\* of actions admitted within one local calendar day of the user never
\* exceeds the daily limit of the tier.
C3_LocalDayWithinLimit ==
    hist.tally[2] <= DailyLimit(Tier(user.plan))

\* C4: the first reset check of an accounted action after the user's local
\* midnight returns the count 0 and leaves the new local date stored as the
\* daily reset date.
C4_FirstCheckOfLocalDay ==
    \A r \in Reqs :
        (req[r].pc = "gate" /\ req[r].first) =>
            /\ req[r].count = 0
            /\ user.daily_reset_date = isoformat_date(req[r].today)

\* C5: the reset check is idempotent within a local day: it resets exactly
\* when the stored date is unset or before today, then stores today and the
\* count 0 and returns 0; a further check of the same zone on the same local
\* day changes no field of the account and returns the stored count.
C5_CheckAndResetIdempotent ==
    \A r \in Reqs : Checked(r) =>
        /\ req[r].reset <=> (snap.daily_reset_date = None
                              \/ snap.daily_reset_date[2] < req[r].today)
        /\ req[r].reset =>
              /\ req[r].count = 0
              /\ user = [snap EXCEPT !.daily_reset_date = isoformat_date(req[r].today),
                                     !.daily_analogies_generated = 0]
        /\ ~req[r].reset => (user = snap /\ req[r].count = user.daily_analogies_generated)
        /\ req[r].repeat => ~req[r].reset

C5_Witness ==
    \E r \in Reqs :
        /\ Checked(r) /\ req[r].repeat /\ req[r].count > 0
        /\ hist.did_reset
        /\ user.daily_reset_date = isoformat_date(req[r].today)

\* C6: an accounted action whose daily count after the reset check has
\* reached the daily limit of the tier ends with the quota rejection, never
\* in the generation, and leaves the daily count, the last action time and
\* the streak fields as it found them.
C6_QuotaRejectionChangesNothing ==
    \A r \in Reqs : (Gated(r) /\ QuotaRejects(r)) =>
        /\ req[r].pc = "rej_quota"
        /\ user.daily_analogies_generated = req[r].count
        /\ user.last_analogy_time = snap.last_analogy_time
        /\ user.current_streak_count = snap.current_streak_count
        /\ user.longest_streak_count = snap.longest_streak_count
        /\ user.last_streak_date = snap.last_streak_date
        /\ user.streak_reset_acknowledged = snap.streak_reset_acknowledged

C6_Witness ==
    \E r \in Reqs :
        /\ Gated(r) /\ QuotaRejects(r)
        /\ req[r].count = DailyLimit(Tier(req[r].plan))
        /\ user.current_streak_count > 0

\* C7: an accounted action that passed the quota check while the account had
\* a last action time less than the minimum interval of the tier before it
\* is rejected as rate limited, whichever operation wrote that time.
C7_RateLimitEveryForm ==
    \A r \in Reqs :
        (Gated(r) /\ ~QuotaRejects(r) /\ RateRejects(r)) => req[r].pc = "rej_rate"

\* C8: a rate-limit rejection reports a wait of at least one second, and the
\* reported wait added to the time elapsed reaches the minimum interval.
C8_RemainingRoundedUp ==
    \A r \in Reqs : req[r].pc = "rej_rate" =>
        /\ req[r].remaining >= 1
        /\ (req[r].gate_t - req[r].last[1]) + Sec(req[r].remaining)
              >= Sec(MinIntervalSeconds(Tier(req[r].plan)))

\* C9: the gates decide in the order quota, rate, storage: a request is
\* rejected by the first gate that rejects it, and the generation is reached
\* only when none of the three rejects.
C9_GatingOrder ==
    \A r \in Reqs : Gated(r) =>
        /\ req[r].pc = "rej_quota" <=> QuotaRejects(r)
        /\ req[r].pc = "rej_rate" <=> (~QuotaRejects(r) /\ RateRejects(r))
        /\ req[r].pc = "rej_storage" <=>
              (~QuotaRejects(r) /\ ~RateRejects(r) /\ StorageRejects(r))

C9_Witness ==
    \E r \in Reqs :
        /\ Gated(r) /\ req[r].pc = "rej_quota"
        /\ RateRejects(r)
        /\ analogies >= StorageCeiling(Tier(req[r].plan))

\* C10: generate, regenerate and the pricing statistics apply the limits of
\* the account's tier (Free 20 a day, 60 seconds, 100 stored; Paid 100, 12,
\* 500; any other plan value as Free), and a request that reaches the storage
\* check is rejected there exactly when the stored count has reached the
\* ceiling.
C10_LimitsOfTier ==
    /\ \A r \in Reqs : (InFlight(r) /\ req[r].kind \in Accounted) =>
          /\ req[r].plan = user.plan
          /\ req[r].limits = <<DailyLimit(Tier(user.plan)), MinIntervalSeconds(Tier(user.plan))>>
    /\ \A r \in Reqs : (Gated(r) /\ req[r].pc \notin {"rej_quota", "rej_rate"}) =>
          /\ req[r].storage_limit = StorageCeiling(Tier(user.plan))
          /\ req[r].pc = "rej_storage" <=> req[r].stored >= StorageCeiling(Tier(user.plan))
    /\ stats # None =>
          stats[1] = <<user.plan, <<DailyLimit(Tier(user.plan)),
                                    MinIntervalSeconds(Tier(user.plan))>>>>

C10_Witness ==
    /\ user.plan \notin {"curious", "scholar"}
    /\ stats # None
    /\ \E r \in Reqs : req[r].kind = "regenerate" /\ req[r].pc = "rej_storage"

----------------------------------------------------------------------------
(* Streaks and the accounting steps *)

\* the gap in days between the streak date of the row the request found and
\* the day d; None when the row has no streak date
GapDays(row, d) ==
    IF row.last_streak_date = None THEN None ELSE <<d - row.last_streak_date[2]>>

\* C11: a request that fails in the generation or in the save has consumed
\* nothing: the daily count is not incremented, last_analogy_time,
\* last_streak_date and the streak log are as the request found them, and the
\* current streak is not advanced (the check before the save may have reset a
\* broken streak to 0)
C11_FailureConsumesNothing ==
    \A r \in Reqs :
        (req[r].kind \in Accounted /\ req[r].pc = "failed") =>
            /\ user.daily_analogies_generated <= snap.daily_analogies_generated
            /\ user.last_analogy_time = snap.last_analogy_time
            /\ user.current_streak_count <= snap.current_streak_count
            /\ user.longest_streak_count = snap.longest_streak_count
            /\ user.last_streak_date = snap.last_streak_date
            /\ user.lifetime_analogies_generated = snap.lifetime_analogies_generated
            /\ streak_logs = hist.logs

C11_Witness ==
    \E r \in Reqs :
        /\ req[r].kind \in Accounted
        /\ req[r].pc = "failed"
        /\ snap.daily_analogies_generated > 0
        /\ ~req[r].reset

\* C12: once the analogy is saved, no step makes the request fail and the
\* saved analogy is never deleted, also when accounting steps fail
PostSave == AccountingSteps \cup {"done"}

C12_AccountingFailureIsHarmless ==
    [][\A r \in Reqs :
          (req[r].kind \in Accounted /\ req[r].pc \in PostSave) =>
              /\ req'[r].pc \in PostSave \cup {"idle"}
              /\ req'[r].pc = "idle" => req[r].pc = "done"
              /\ analogies' >= analogies]_vars

C12_Witness ==
    \E r \in Reqs :
        /\ req[r].kind \in Accounted
        /\ req[r].pc = "done"
        /\ req[r].anomaly
        /\ analogies > 0

\* C13: the requests of one local day raise the current streak by at most 1
\* in total, also when several of them pass the check of the streak log
C13_OneIncrementPerDay ==
    user.current_streak_count <= snap.current_streak_count + 1

C13_Witness ==
    \E r1, r2 \in Reqs :
        /\ r1 # r2
        /\ req[r1].inserted
        /\ req[r2].pc = "lifetime_read" /\ req[r2].s_new > 0 /\ ~req[r2].inserted
        /\ user.current_streak_count = snap.current_streak_count + 1

\* C14: the streak log holds at most one entry for a day, entries are never
\* changed or removed, and a refused insert does not fail the request
C14_OneLogPerDay ==
    /\ [](\A d \in BagToSet(streak_logs) : CopiesIn(d, streak_logs) = 1)
    /\ [][/\ \A d \in BagToSet(streak_logs) :
                CopiesIn(d, streak_logs') >= CopiesIn(d, streak_logs)
          /\ \A r \in Reqs :
                req[r].pc = "streak_log" =>
                    req'[r].pc \in {"streak_log", "lifetime_read"}]_vars

C14_Witness ==
    \E r \in Reqs :
        /\ req[r].pc \in {"lifetime_read", "lifetime_write", "commit_read", "done"}
        /\ req[r].s_time > 0
        /\ ~req[r].inserted
        /\ CopiesIn(req[r].s_date, streak_logs) = 1

\* C15, as stated: after validate, an account whose streak date is two or
\* more days before today has current streak 0, the reset unacknowledged and
\* the longest streak unchanged
C15_ValidateAlwaysUnacknowledged ==
    \A r \in Reqs :
        (/\ req[r].kind = "validate" /\ req[r].pc = "v_done"
         /\ GapDays(snap, req[r].today) # None
         /\ GapDays(snap, req[r].today)[1] >= 2) =>
            /\ user.current_streak_count = 0
            /\ user.streak_reset_acknowledged = FALSE
            /\ user.longest_streak_count = snap.longest_streak_count

\* C15, amended: such an account has current streak 0 and its longest streak
\* unchanged after validate; the reset is unacknowledged when the current
\* streak was above 0, and the row is untouched when it was 0 already
C15_ValidateResetsRunningStreak ==
    \A r \in Reqs :
        (/\ req[r].kind = "validate" /\ req[r].pc = "v_done"
         /\ GapDays(snap, req[r].today) # None
         /\ GapDays(snap, req[r].today)[1] >= 2) =>
            /\ user.current_streak_count = 0
            /\ user.longest_streak_count = snap.longest_streak_count
            /\ snap.current_streak_count > 0 => user.streak_reset_acknowledged = FALSE
            /\ snap.current_streak_count = 0 => user = snap

C15_Witness ==
    \E r \in Reqs :
        /\ req[r].kind = "validate" /\ req[r].pc = "v_done"
        /\ GapDays(snap, req[r].today) = <<2>>
        /\ snap.current_streak_count > 0
        /\ user.streak_reset_acknowledged = FALSE

\* C16: the streak update of a day without a streak log keeps the current
\* streak when the streak date is today, adds 1 when it is yesterday, and
\* sets 1 otherwise; the longest streak is the maximum of its old value and
\* the new current streak, the streak date is today, and exactly one streak
\* log of today exists
ExpectedStreak(row, d) ==
    IF GapDays(row, d) = None THEN 1
    ELSE IF GapDays(row, d)[1] = 0 THEN row.current_streak_count
    ELSE IF GapDays(row, d)[1] = 1 THEN row.current_streak_count + 1
    ELSE 1

C16_StreakUpdate ==
    \A r \in Reqs :
        LET d == get_user_current_date(client_tz, now)
        IN (/\ req[r].kind \in Accounted /\ req[r].pc = "lifetime_read"
            /\ ~BagIn(d, hist.logs)) =>
               /\ user.current_streak_count = ExpectedStreak(snap, d)
               /\ user.longest_streak_count =
                      Max(snap.longest_streak_count, ExpectedStreak(snap, d))
               /\ user.last_streak_date = isoformat_date(d)
               /\ CopiesIn(d, streak_logs) = 1
               /\ req[r].inserted

C16_Witness ==
    \E r \in Reqs :
        /\ req[r].kind \in Accounted /\ req[r].pc = "lifetime_read"
        /\ req[r].inserted
        /\ GapDays(snap, req[r].s_date) = <<1>>
        /\ user.current_streak_count = 2

\* C17: the current streak is never negative and never above the longest
\* streak
C17_CurrentWithinLongest ==
    /\ 0 <= user.current_streak_count
    /\ user.current_streak_count <= user.longest_streak_count

C17_Witness ==
    \E r1, r2 \in Reqs :
        /\ req[r1].kind = "fix" /\ req[r1].pc = "f_done"
        /\ req[r2].kind \in Accounted /\ req[r2].inserted
        /\ user.longest_streak_count = 2

\* C18: the streak is in one of the states NoStreak, Active (acknowledged) and
\* Broken: an unacknowledged reset never goes with a current streak of 1 or
\* more
C18_StreakStates ==
    ~(user.streak_reset_acknowledged = FALSE /\ user.current_streak_count >= 1)

\* C19: acknowledge_streak_reset sets streak_reset_acknowledged, leaves every
\* other field and the streak log as they were, and changes nothing when the
\* reset is acknowledged already
C19_AcknowledgeOnly ==
    \A r \in Reqs :
        (req[r].kind = "ack" /\ req[r].pc = "a_done") =>
            /\ user = [snap EXCEPT !.streak_reset_acknowledged = TRUE]
            /\ snap.streak_reset_acknowledged => user = snap
            /\ streak_logs = hist.logs

C19_Witness ==
    \E r \in Reqs :
        /\ req[r].kind = "ack" /\ req[r].pc = "a_done"
        /\ ~snap.streak_reset_acknowledged
        /\ user.streak_reset_acknowledged
        /\ user.last_streak_date # None

\* C20: delivering an event a second time, at any later moment, leaves the
\* row as the first delivery left it
C20_HandlersIdempotent ==
    hist.replayed => user = hist.applied

----------------------------------------------------------------------------
(* The subscription of the account *)

\* the tier the account will have after the billing cycle; none for a null
\* upcoming plan
UpcomingTier(upcoming_plan) ==
    IF upcoming_plan = "scholar" THEN "Paid"
    ELSE IF upcoming_plan = "curious" THEN "Free"
    ELSE "none"

\* the latest step applied a Stripe event
Delivered == hist.op \in {"deliver", "redeliver"} /\ hist.event # None

\* the subscriptions an event is about
EventSubscriptions(event) ==
    IF event.type \in SubscriptionEvents \cup {"customer.subscription.updated"}
    THEN {event.object.id}
    ELSE IF event.type \in InvoiceEvents \cup {"checkout.session.completed"}
    THEN {i \in SubscriptionIds : event.object.subscription = Some(i)}
    ELSE {}

\* the event tells that the subscription has ended or that the payment has
\* failed for good
ReportsEnd(event) ==
    \/ EndedEvent(event)
    \/ /\ event.type = "invoice.payment_failed"
       /\ event.object.next_payment_attempt = None

\* C21: once the account has been told that a subscription ended, an event
\* about that subscription does not move the account back to the paid tier
C21_EndedStaysEnded ==
    [][(/\ hist'.op \in {"deliver", "redeliver"}
        /\ now' = now
        /\ EventSubscriptions(hist'.event[1]) \cap hist.ended # {}
        /\ Tier(user.plan) = "Free") => Tier(user'.plan) = "Free"]_vars

\* the customer.subscription.updated events of a running subscription of the
\* user that carry its current_period_end
ActiveUpdates ==
    {e \in Events :
        /\ e.type = "customer.subscription.updated"
        /\ e.object.status = "active"
        /\ e.object.user_id # None
        /\ e.object.current_period_end # None}

\* the row is as a customer.subscription.updated event with status active sets it
AsActiveUpdate(row, subscription) ==
    /\ row.plan = "scholar"
    /\ row.plan_cancelled = subscription.cancel_at_period_end
    /\ row.upcoming_plan =
           IF subscription.cancel_at_period_end THEN "curious" ELSE "scholar"
    /\ row.renewal_date =
           Some(isoformat_date(get_user_current_date("UTC",
                                   subscription.current_period_end[1])))

\* C22: whatever the row, a customer.subscription.updated event with status
\* active leaves the plan scholar, plan_cancelled as the event's
\* cancel_at_period_end, the upcoming plan curious when it is set and scholar
\* otherwise, and the renewal date the date of the event's current_period_end
C22_ActiveUpdate ==
    /\ \A e \in ActiveUpdates :
          AsActiveUpdate(stripe_webhook(user, e, Anonymous, now), e.object)
    /\ (Delivered /\ hist.event[1] \in ActiveUpdates) =>
          AsActiveUpdate(user, hist.event[1].object)

C22_Witness ==
    /\ Delivered
    /\ hist.event[1] \in ActiveUpdates
    /\ hist.event[1].object.cancel_at_period_end
    /\ user.plan_cancelled
    /\ user.stripe_subscription_id = None

\* the events of the user's subscription that report its end
EndedEvents == {e \in Events : EndedEvent(e) /\ e.object.user_id # None}

\* the row is as the end of the subscription leaves the row before
AsEnded(row, before) ==
    /\ row.plan = "curious"
    /\ row.upcoming_plan = "curious"
    /\ row.plan_cancelled = FALSE
    /\ row.renewal_date = None
    /\ row.stripe_subscription_id = before.stripe_subscription_id

PaidInvoices == {e \in Events : e.type = "invoice.paid"}

\* C24: an invoice.paid event sets the plan scholar and the renewal date to
\* the date of the current_period_end of the subscription Stripe returns; it
\* changes nothing when it names no subscription or when the subscription
\* names no user
C24_InvoicePaid ==
    \A e \in PaidInvoices : \A retrieved \in Lookups(e) :
        LET after == stripe_webhook(user, e, retrieved, now)
        IN /\ (e.object.subscription = None \/ retrieved.user_id = None) =>
                  after = user
           /\ (/\ e.object.subscription # None
               /\ retrieved.user_id # None
               /\ retrieved.current_period_end # None) =>
                  /\ after.plan = "scholar"
                  /\ after.renewal_date =
                         Some(isoformat_date(get_user_current_date("UTC",
                                                 retrieved.current_period_end[1])))

C24_Witness ==
    /\ Delivered
    /\ hist.event[1] \in PaidInvoices
    /\ hist.event[1].object.subscription # None
    /\ user.plan = "scholar"
    /\ user.renewal_date = Some(isoformat_date(get_user_current_date("UTC", T0) + 31))
    /\ user.stripe_subscription_id = None

\* C25: downgrade_user_plan on a scholar account leaves the plan, sets the
\* upcoming plan curious and plan_cancelled, and asks Stripe to cancel at the
\* period end; the plan of an account with plan_cancelled stays scholar until
\* an event reports the end of the subscription
C25_DowngradeKeepsTier ==
    [][/\ (hist'.op = "downgrade" /\ now' = now /\ user.plan = "scholar") =>
              /\ user'.plan = "scholar"
              /\ user'.upcoming_plan = "curious"
              /\ user'.plan_cancelled
              /\ hist'.asked = Some(TRUE)
       /\ (user.plan = "scholar" /\ user.plan_cancelled /\ user'.plan # "scholar") =>
              /\ hist'.op \in {"deliver", "redeliver"}
              /\ ReportsEnd(hist'.event[1])]_vars

\* C26: the tier goes from paid to free only in a step that applies an event
\* reporting the end of the subscription
C26_DowngradeOnlyByEnd ==
    [][(Tier(user.plan) = "Paid" /\ Tier(user'.plan) = "Free") =>
           /\ hist'.op \in {"deliver", "redeliver"}
           /\ ReportsEnd(hist'.event[1])]_vars

\* C27: resume_user_plan on an account without plan_cancelled is rejected,
\* asks Stripe nothing and leaves the row
C27_ResumeNeedsPendingCancel ==
    [][(hist'.op = "resume" /\ now' = now /\ ~user.plan_cancelled) =>
           /\ hist'.result # "success"
           /\ hist'.asked = None
           /\ user' = user]_vars

\* C28: downgrade_user_plan and resume_user_plan on an account without a
\* subscription are rejected and leave the upcoming plan and plan_cancelled
C28_NoSubscriptionRejected ==
    [][(/\ hist'.op \in {"downgrade", "resume"}
        /\ now' = now
        /\ user.stripe_subscription_id = None) =>
           /\ hist'.result = "400 No active subscription found"
           /\ user'.upcoming_plan = user.upcoming_plan
           /\ user'.plan_cancelled = user.plan_cancelled]_vars

\* C29: the renewal date is null or the date of a current_period_end of
\* Stripe
C29_RenewalDateFromStripe ==
    \/ user.renewal_date = None
    \/ \E t \in PeriodEnds :
          user.renewal_date = Some(isoformat_date(get_user_current_date("UTC", t)))

\* C30: after plan endpoints of the user and Stripe events only, the plan,
\* the upcoming plan and plan_cancelled are those of Curious, Scholar or
\* ScholarCancelPending
C30_PlanStates ==
    ~hist.admin =>
        <<Tier(user.plan), UpcomingTier(user.upcoming_plan), user.plan_cancelled>>
            \in {<<"Free", "Free", FALSE>>, <<"Paid", "Paid", FALSE>>,
                 <<"Paid", "Free", TRUE>>}

\* the event, or the subscription Stripe returns for it, names no user in
\* its metadata
CarriesNoUser(event, retrieved) ==
    IF event.type \in InvoiceEvents
    THEN event.object.subscription = None \/ retrieved.user_id = None
    ELSE IF event.type \in SubscriptionEvents
                           \cup {"customer.subscription.updated",
                                 "checkout.session.completed"}
    THEN event.object.user_id = None
    ELSE FALSE

\* C31: an event that names no user changes no row, whatever the row; a
\* request without signature, with a wrong signature or with an invalid
\* payload is answered with 400 before any handler runs and changes no row
C31_UnverifiedChangesNothing ==
    /\ [](\A e \in Events : \A retrieved \in Lookups(e) :
             CarriesNoUser(e, retrieved) =>
                 stripe_webhook(user, e, retrieved, now) = user)
    /\ [][(hist'.op = "reject" /\ now' = now) =>
              /\ user' = user
              /\ hist'.result \in Rejections
              /\ hist'.event = None
              /\ hist'.ended = hist.ended]_vars

C31_Witness ==
    /\ hist.op = "reject"
    /\ hist.result = "400 Invalid signature"
    /\ user.plan = "scholar"
    /\ user.plan_cancelled
    /\ user.stripe_subscription_id # None

\* C33: the date simulation leaves a scholar account with plan_cancelled
\* whose renewal date is on or before the simulated date with the plan
\* curious, no subscription start date, no renewal date and plan_cancelled
\* false; the plan column holds curious or scholar only
C33_SimulatedDowngrade ==
    /\ user.plan \in {"curious", "scholar"}
    /\ \A d \in SimulatedDates :
          (user.plan = "scholar" /\ user.plan_cancelled /\ renewal_due(user, d)) =>
              LET after == simulate_date_for_testing(user, d)
              IN /\ after.plan = "curious"
                 /\ after.subscription_start_date = None
                 /\ after.renewal_date = None
                 /\ ~after.plan_cancelled

\* C34: resume_user_plan, accepted or rejected, leaves the plan of the row
C34_ResumeKeepsTier ==
    [][(hist'.op = "resume" /\ now' = now) =>
           /\ user'.plan = user.plan
           /\ Tier(user'.plan) = Tier(user.plan)]_vars

C34_Witness ==
    /\ hist.op = "resume"
    /\ hist.result = "success"
    /\ hist.ended # {}
    /\ user.plan = "curious"
    /\ user.upcoming_plan = "scholar"

\* the subscription as Stripe has it when the event is handled: the one the
\* handler retrieves, or the one the event carries
StripeSubscription(event, retrieved) ==
    IF Retrieves(event) THEN retrieved
    ELSE IF event.type \in SubscriptionEvents \cup {"customer.subscription.updated"}
    THEN event.object
    ELSE Anonymous

\* C40: while the subscription at Stripe is active with cancel_at_period_end,
\* no event handler takes plan_cancelled from the row or makes its upcoming
\* plan scholar
C40_CancellationKept ==
    \A e \in Events : \A retrieved \in Lookups(e) :
        LET subscription == StripeSubscription(e, retrieved)
            after == stripe_webhook(user, e, retrieved, now)
        IN (/\ user.plan_cancelled
            /\ subscription.user_id # None
            /\ subscription.status = "active"
            /\ subscription.cancel_at_period_end) =>
               /\ after.plan_cancelled
               /\ after.upcoming_plan # "scholar"

\* C32: get_user_current_date gives the UTC date for an identifier that
\* pytz does not know, and every date a request of such a client computes for
\* the reset check, the streak endpoints and the streak update is the UTC
\* date of the instant it was computed at
C32_UnknownZoneIsUTC ==
    /\ \A z \in UnknownZones :
          /\ get_user_timezone(z) = "UTC"
          /\ get_user_current_date(z, now) = get_user_current_date("UTC", now)
    /\ \A r \in Reqs :
          req[r].tz \in UnknownZones =>
             /\ req[r].pc \in {"cr_write", "cr_fresh", "gate", "login_done", "v_write",
                               "v_done", "f_log", "f_write", "f_done"} =>
                    req[r].today = get_user_current_date("UTC", now)
             /\ req[r].pc \in {"rej_quota", "rej_rate", "rej_storage", "generating"} =>
                    req[r].today = get_user_current_date("UTC", req[r].gate_t)
             /\ req[r].pc \in {"streak_write", "streak_log"} =>
                    req[r].s_date = get_user_current_date("UTC", req[r].s_time)

C32_Witness ==
    /\ req[1].pc = "done"
    /\ req[1].tz \in UnknownZones
    /\ req[1].reset
    /\ user.daily_reset_date = isoformat_date(get_user_current_date("UTC", now))
    /\ user.last_streak_date = isoformat_date(get_user_current_date("UTC", now))
    /\ user.current_streak_count = 2

\* C35: the streak check before the save of generate_analogy and
\* regenerate_analogy resets the streak exactly when
\* validate_and_update_user_streak would on the same row and date, writes
\* what it would write, and writes nothing otherwise
C35_PreCheckIsValidate ==
    [][LET d == get_user_current_date(req[1].tz, now)
           validated == validate_and_update_user_streak(user, d)
       IN /\ (req[1].pc = "pre_streak" /\ req'[1].pc # "pre_streak") =>
                 /\ user' = user
                 /\ req'[1].pc = IF validated # user THEN "pre_reset" ELSE "save"
          /\ (req[1].pc = "pre_reset" /\ req'[1].pc # "pre_reset") =>
                 /\ user' = validated
                 /\ req'[1].pc = "save"]_vars

C35_Witness ==
    /\ req[1].pc = "save"
    /\ req[1].kind = "regenerate"
    /\ snap.current_streak_count > 0
    /\ user.current_streak_count = 0
    /\ ~user.streak_reset_acknowledged
    /\ user.last_streak_date # None

\* C39: regenerate_analogy has the limits and the gates of generate_analogy:
\* a request of either kind gets the limits both give for the plan and the
\* outcome both gates give for the values it read; a completed request of
\* either kind has added one to the count it read after the reset check,
\* stored the date of the reset check when it reset and the time of its
\* commit
C39_RegenerateAsGenerate ==
    [][LET q == req[1]
       IN /\ (q.pc = "gate" /\ req'[1].pc # "gate") =>
                 /\ q.limits = generate_limits(q.plan)
                 /\ q.limits = regenerate_limits(q.plan)
                 /\ generate_storage_limit(q.plan) = regenerate_storage_limit(q.plan)
                 /\ req'[1].pc = generate_gate(q.count, q.limits, q.last, now, analogies,
                                               generate_storage_limit(q.plan))
                 /\ req'[1].pc = regenerate_gate(q.count, q.limits, q.last, now, analogies,
                                                 regenerate_storage_limit(q.plan))
                 /\ generate_rate_check(q.last, now, q.limits[2])
                        = regenerate_rate_check(q.last, now, q.limits[2])
          /\ (q.kind \in Accounted /\ q.pc = "popup" /\ req'[1].pc = "done") =>
                 /\ user'.daily_analogies_generated = q.count + 1
                 /\ user'.last_analogy_time = isoformat_naive(q.c_time)
                 /\ user'.daily_reset_date =
                        IF q.reset THEN isoformat_date(q.today) ELSE snap.daily_reset_date
                 /\ user'.lifetime_analogies_generated =
                        snap.lifetime_analogies_generated + 1]_vars

C39_Witness ==
    /\ req[1].kind = "regenerate"
    /\ req[1].pc = "done"
    /\ req[1].reset
    /\ user.daily_analogies_generated = 1
    /\ user.current_streak_count = 2

\* C36: no write makes longest_streak_count smaller
C36_LongestNeverDecreases ==
    [][user'.longest_streak_count >= user.longest_streak_count]_vars

\* C37: no write makes daily_reset_date an earlier date
C37_ResetDateNeverEarlier ==
    [][(user.daily_reset_date # None /\ user'.daily_reset_date # None) =>
           user'.daily_reset_date[2] >= user.daily_reset_date[2]]_vars

\* C38: when last_streak_date is the user's current date, the current
\* streak is at least 1
C38_ActiveTodayHasStreak ==
    user.last_streak_date = isoformat_date(get_user_current_date(client_tz, now)) =>
        user.current_streak_count >= 1

====
